---- MODULE Spec2Model ----
(***************************************************************************)
(* Model of src/main.c: a CGI program (one process per HTTP request) that  *)
(* gates every page but "login" on a session resolved from the sid/stok    *)
(* cookies, and keeps users and sessions in an SQL store.                  *)
(*                                                                         *)
(* Each request is a process: rq[p] is its struct kreq (the parts the code *)
(* reads), its local variables, its position, and what it has written so   *)
(* far (status, Set-Cookie headers, body, log lines, statements issued).   *)
(* A request input is drawn at the place where the code first reads it;    *)
(* the inputs are fixed by khttp_parse and independent of the store, so    *)
(* this is the same set of runs.  Every store statement is one atomic      *)
(* step; the code between two statements belongs to the step of the        *)
(* statement that follows it.                                              *)
(*                                                                         *)
(* A pointer that may be NULL is a sequence of length at most one.         *)
(* rq[p].handler, .resolved, .lookup and .stmts record what the request    *)
(* has done (the page function entered, db_sess_resolve returned, whether  *)
(* the e-mail lookup found a row, the statements issued); the code does    *)
(* not read them.                                                          *)
(***************************************************************************)
EXTENDS Integers, Sequences, FiniteSets, TLC

VARIABLES user, sess, rq, nreq

vars == <<user, sess, rq, nreq>>

(* ------------------------------------------------------------ constants *)

\* enum page, and the page names of pages[]
PAGE_INDEX == "index"
PAGE_LOGIN == "login"
PAGE_LOGOUT == "logout"
PAGE_USER_MOD_EMAIL == "usermodemail"
PAGE_USER_MOD_PASS == "usermodpass"
PAGE__MAX == "PAGE__MAX"

Pages == {PAGE_INDEX, PAGE_LOGIN, PAGE_LOGOUT, PAGE_USER_MOD_EMAIL,
          PAGE_USER_MOD_PASS}

\* keys[]: the cookie names
KEY_SESSTOK == "stok"
KEY_SESSID == "sid"

\* enum stmt
STMT_SESS_DEL == "STMT_SESS_DEL"
STMT_SESS_GET == "STMT_SESS_GET"
STMT_SESS_NEW == "STMT_SESS_NEW"
STMT_USER_LOOKUP == "STMT_USER_LOOKUP"
STMT_USER_MOD_EMAIL == "STMT_USER_MOD_EMAIL"
STMT_USER_MOD_HASH == "STMT_USER_MOD_HASH"

\* the HTTP status codes the program sends
KHTTP_200 == 200
KHTTP_400 == 400
KHTTP_403 == 403
KHTTP_404 == 404
KHTTP_405 == 405
KHTTP_500 == 500

KMETHOD_GET == "GET"
KMETHOD_POST == "POST"
KMIME_APP_JSON == "application/json"

\* char hash[64] of db_user_mod_pass
HASHSIZE == 64

\* 60 * 60 * 24 * 365 of sendlogin
YEAR == 31536000

(* --------------------------------------------------------------- bounds *)

\* session ids the store can assign are 1 .. MaxSess
MaxSess == 2

SessIds == 1 .. MaxSess

\* requests a run of concurrent requests starts
MaxReq == 4

\* values arc4random() returns in the model
Tokens == {0, 1}

\* the user table: provisioned outside the program, never deleted
Users == {1, 2}

Emails == {"a@x", "b@x", "c@x"}

Passwords == {<<1>>, <<2>>}

Procs == {1, 2}

(* ------------------------------------------------------- the SQL store *)

\* the DELETE without "AND userid=?"
SessDel_AnyOwner(s, id, token, userid) ==
    {x \in s : ~(x.id = id /\ x.token = token)}

\* "DELETE FROM sess WHERE id=? AND token=? AND userid=?"
SessDel(s, id, token, userid) ==
    {x \in s : ~(x.id = id /\ x.token = token /\ x.userid = userid)}

\* the SELECT without "AND sess.token=?"
SessGet_IdOnly(us, s, id, token) ==
    {[id |-> x.userid, email |-> us[x.userid].email] :
        x \in {y \in s : y.id = id /\ y.userid \in DOMAIN us}}

\* "SELECT user.id,user.email FROM sess INNER JOIN user ON
\*  user.id=sess.userid WHERE sess.id=? AND sess.token=?": the rows
SessGet(us, s, id, token) ==
    {[id |-> x.userid, email |-> us[x.userid].email] :
        x \in {y \in s : y.id = id /\ y.token = token /\ y.userid \in DOMAIN us}}

\* "INSERT INTO sess (token,userid) VALUES (?,?)", the store having
\* assigned the id
SessNew(s, id, token, userid) ==
    s \cup {[id |-> id, token |-> token, userid |-> userid]}

\* the ids the store may assign to a new sess row: any id no row holds
NewIds(s) == {i \in SessIds : \A x \in s : x.id # i}

\* "SELECT user.id,user.email,hash FROM user WHERE email=?": the rows
UserLookup(us, email) ==
    {[id |-> i, email |-> us[i].email, hash |-> us[i].hash] :
        i \in {j \in DOMAIN us : us[j].email = email}}

\* the user table's uniqueness of email: would the update violate it
EmailTaken(us, email, id) ==
    \E j \in DOMAIN us : j # id /\ us[j].email = email

\* "UPDATE user SET email=? WHERE id=?"
UserModEmail(us, email, id) ==
    [j \in DOMAIN us |-> IF j = id THEN [us[j] EXCEPT !.email = email] ELSE us[j]]

\* "UPDATE user SET hash=? WHERE id=?"
UserModHash(us, hash, id) ==
    [j \in DOMAIN us |-> IF j = id THEN [us[j] EXCEPT !.hash = hash] ELSE us[j]]


(* ------------------------------------------------- the password "hash" *)

Min(a, b) == IF a < b THEN a ELSE b

\* strlcpy(dst, src, size): at most size - 1 bytes of src
Strlcpy(src, size) == SubSeq(src, 1, Min(Len(src), size - 1))

\* db_user_mod_pass, #else branch: the stored hash of a password
NewHash(pass) == Strlcpy(pass, HASHSIZE)

\* db_user_find, #else branch: 0 == strcmp(hash, pass)
CheckPass(pass, hash) == hash = pass

(* ---------------------------------------------------------- a request *)

Blank ==
    [pc |-> "idle", method |-> "", page |-> "", mime |-> "",
     sid |-> <<>>, stok |-> <<>>, email |-> <<>>, pass |-> <<>>,
     resolved |-> FALSE, u |-> <<>>, lu |-> <<>>, token |-> <<>>,
     handler |-> "", lookup |-> "", status |-> 0, cookies |-> <<>>,
     body |-> [text |-> "", user |-> <<>>],
     log |-> <<>>, stmts |-> <<>>, crashed |-> FALSE]

\* http_alloc / http_open: the status line (the other headers are fixed)
http_open(r, code) == [r EXCEPT !.status = code]

\* khttp_free and return from main
Return(r) == [r EXCEPT !.pc = "done"]

\* ksql exits the process on a failed statement (KSQL_EXIT_ON_ERR)
Exited(r) == [r EXCEPT !.pc = "done", !.crashed = TRUE]

\* kutil_info(r, ident, fmt, ...)
kutil_info(r, ident, action, arg) ==
    [r EXCEPT !.log = Append(@, [actor |-> ident, action |-> action, arg |-> arg])]

Issued(r, stmt) == [r EXCEPT !.stmts = Append(@, stmt)]

LoginExpiry == [base |-> "now", offset |-> YEAR]

LogoutExpiry == [base |-> "epoch", offset |-> 0]

SetCookie(r, name, value, expires) ==
    [r EXCEPT !.cookies = Append(@, [name |-> name, value |-> value,
                                     expires |-> expires])]

(* ------------------------------------------------ the store functions *)

\* db_user_fill keeping every column of the row, the hash too
db_user_fill_WithHash(row) == row

\* db_user_fill: the USER columns of a row
db_user_fill(row) == [id |-> row.id, email |-> row.email]

\* db_sess_new: the new sess table, the request after the log line, and
\* the id ksql_lastid reads back
db_sess_new(r, s, id, token, u) ==
    [sess |-> SessNew(s, id, token, u.id),
     r |-> kutil_info(Issued(r, STMT_SESS_NEW), u.email, "new session", ""),
     id |-> id]

\* db_user_find keeping the user when the password does not match
db_user_find_KeepUser(us, email, pass) ==
    LET rows == UserLookup(us, email)
    IN  IF rows = {} THEN <<>>
        ELSE <<db_user_fill(CHOOSE x \in rows : TRUE)>>

\* db_user_find: the user, or NULL when no row has the e-mail or the
\* password does not match the hash
db_user_find(us, email, pass) ==
    LET rows == UserLookup(us, email)
    IN  IF rows = {} THEN <<>>
        ELSE LET row == CHOOSE x \in rows : TRUE
                 rc == CheckPass(pass, row.hash)
             IN  IF ~rc THEN <<>> ELSE <<db_user_fill(row)>>

\* db_sess_resolve without the test for -1
db_sess_resolve_AlwaysQueries(us, s, id, token) ==
    LET rows == SessGet(us, s, id, token)
    IN  [u |-> IF rows = {} THEN <<>>
               ELSE <<db_user_fill(CHOOSE x \in rows : TRUE)>>,
         stmts |-> <<STMT_SESS_GET>>]

\* db_sess_resolve: the user of the session, or NULL; and the statements
\* it issued
db_sess_resolve(us, s, id, token) ==
    IF id = -1 \/ token = -1
    THEN [u |-> <<>>, stmts |-> <<>>]
    ELSE LET rows == SessGet(us, s, id, token)
         IN  [u |-> IF rows = {} THEN <<>>
                    ELSE <<db_user_fill(CHOOSE x \in rows : TRUE)>>,
              stmts |-> <<STMT_SESS_GET>>]

\* db_sess_del binding the token as the id and the id as the token
db_sess_del_Swapped(r, s, u, id, token) ==
    [sess |-> SessDel(s, token, id, u.id),
     r |-> kutil_info(Issued(r, STMT_SESS_DEL), u.email, "session deleted", "")]

\* db_sess_del taking a DELETE that removed no row for a failure
db_sess_del_Strict(r, s, u, id, token) ==
    IF SessDel(s, id, token, u.id) = s
    THEN [sess |-> s, r |-> Exited(Issued(r, STMT_SESS_DEL))]
    ELSE [sess |-> SessDel(s, id, token, u.id),
          r |-> kutil_info(Issued(r, STMT_SESS_DEL), u.email,
                           "session deleted", "")]

\* db_sess_del
db_sess_del(r, s, u, id, token) ==
    [sess |-> SessDel(s, id, token, u.id),
     r |-> kutil_info(Issued(r, STMT_SESS_DEL), u.email, "session deleted", "")]

\* db_user_mod_pass
db_user_mod_pass(r, us, u, pass) ==
    [user |-> UserModHash(us, NewHash(pass), u.id),
     r |-> kutil_info(Issued(r, STMT_USER_MOD_HASH), u.email,
                      "changed password", "")]

\* db_user_mod_email with an UPDATE that no constraint guards
db_user_mod_email_Unguarded(r, us, u, email) ==
    [user |-> UserModEmail(us, email, u.id),
     r |-> kutil_info(Issued(r, STMT_USER_MOD_EMAIL), u.email,
                      "changed email", email),
     rc |-> TRUE]

\* db_user_mod_email writing the log line whatever ksql_stmt_cstep said
db_user_mod_email_AlwaysLog(r, us, u, email) ==
    LET constraint == EmailTaken(us, email, u.id)
        r1 == Issued(r, STMT_USER_MOD_EMAIL)
    IN  [user |-> IF constraint THEN us ELSE UserModEmail(us, email, u.id),
         r |-> kutil_info(r1, u.email, "changed email", email),
         rc |-> ~constraint]

\* db_user_mod_email: rc is KSQL_CONSTRAINT != c
db_user_mod_email(r, us, u, email) ==
    LET constraint == EmailTaken(us, email, u.id)
        r1 == Issued(r, STMT_USER_MOD_EMAIL)
    IN  [user |-> IF constraint THEN us ELSE UserModEmail(us, email, u.id),
         r |-> IF ~constraint
               THEN kutil_info(r1, u.email, "changed email", email)
               ELSE r1,
         rc |-> ~constraint]

(* ------------------------------------------------------- the handlers *)
(* Each handler gives the request and the tables after it; ok says       *)
(* whether its store statement succeeded (a failed one ends the process).*)

\* json_putuserdata / json_putuser
json_putuser(r, u) ==
    [r EXCEPT !.body = [@ EXCEPT !.user = <<[email |-> u.email, id |-> u.id]>>]]

\* sendindex
sendindex(r) ==
    LET r0 == http_open([r EXCEPT !.handler = "sendindex"], KHTTP_200)
    IN  IF r.u = <<>> THEN Exited(r0)   \* u->email of a NULL u
        ELSE Return(json_putuser(r0, r.u[1]))

\* sendmodemail looking the user up before it tests the field
sendmodemail_QueryFirst(r, us, kp, ok) ==
    LET r0 == Issued([r EXCEPT !.handler = "sendmodemail", !.email = kp],
                     STMT_USER_LOOKUP)
    IN  IF kp # <<>>
        THEN IF r.u = <<>> THEN [r |-> Exited(r0), user |-> us]
             ELSE IF ok
             THEN LET m == db_user_mod_email(r0, us, r.u[1], kp[1])
                  IN  [r |-> Return(http_open(m.r, IF m.rc THEN KHTTP_200
                                                   ELSE KHTTP_400)),
                       user |-> m.user]
             ELSE [r |-> Exited(Issued(r0, STMT_USER_MOD_EMAIL)), user |-> us]
        ELSE [r |-> Return(http_open(r0, KHTTP_400)), user |-> us]

\* sendmodemail, the e-mail field being kp
sendmodemail(r, us, kp, ok) ==
    LET r0 == [r EXCEPT !.handler = "sendmodemail", !.email = kp]
    IN  IF kp # <<>>
        THEN IF r.u = <<>> THEN [r |-> Exited(r0), user |-> us]   \* u->id
             ELSE IF ok
             THEN LET m == db_user_mod_email(r0, us, r.u[1], kp[1])
                  IN  [r |-> Return(http_open(m.r, IF m.rc THEN KHTTP_200
                                                   ELSE KHTTP_400)),
                       user |-> m.user]
             ELSE [r |-> Exited(Issued(r0, STMT_USER_MOD_EMAIL)), user |-> us]
        ELSE [r |-> Return(http_open(r0, KHTTP_400)), user |-> us]

\* sendmodpass, the password field being kp
sendmodpass(r, us, kp, ok) ==
    LET r0 == [r EXCEPT !.handler = "sendmodpass", !.pass = kp]
    IN  IF kp # <<>>
        THEN LET r1 == http_open(r0, KHTTP_200)
             IN  IF r.u = <<>> THEN [r |-> Exited(r1), user |-> us]   \* u->id
                 ELSE IF ok
                 THEN LET m == db_user_mod_pass(r1, us, r.u[1], kp[1])
                      IN  [r |-> Return(m.r), user |-> m.user]
                 ELSE [r |-> Exited(Issued(r1, STMT_USER_MOD_HASH)), user |-> us]
        ELSE [r |-> Return(http_open(r0, KHTTP_400)), user |-> us]

\* sendlogin going on to the session with the user of the e-mail,
\* whatever the password
sendlogin_NoVerify(r, us, kpi, kpp, token, ok) ==
    LET r0 == [r EXCEPT !.handler = "sendlogin", !.email = kpi, !.pass = kpp]
    IN  IF kpi = <<>> \/ kpp = <<>>
        THEN Return(http_open(r0, KHTTP_400))
        ELSE LET r1 == Issued(r0, STMT_USER_LOOKUP)
                 u == db_user_find_KeepUser(us, kpi[1], kpp[1])
                 r2 == [r1 EXCEPT !.lookup = IF UserLookup(us, kpi[1]) = {}
                                             THEN "no row" ELSE "row"]
             IN  IF ~ok THEN Exited(r1)
                 ELSE IF u = <<>> THEN Return(http_open(r2, KHTTP_400))
                 ELSE [r2 EXCEPT !.lu = u, !.token = <<token>>,
                                 !.pc = "db_sess_new"]

\* sendlogin up to arc4random(): the fields being kpi and kpp
sendlogin(r, us, kpi, kpp, token, ok) ==
    LET r0 == [r EXCEPT !.handler = "sendlogin", !.email = kpi, !.pass = kpp]
    IN  IF kpi = <<>> \/ kpp = <<>>
        THEN Return(http_open(r0, KHTTP_400))
        ELSE LET r1 == Issued(r0, STMT_USER_LOOKUP)
                 u == db_user_find(us, kpi[1], kpp[1])
                 r2 == [r1 EXCEPT !.lookup = IF UserLookup(us, kpi[1]) = {}
                                             THEN "no row" ELSE "row"]
             IN  IF ~ok THEN Exited(r1)
                 ELSE IF u = <<>> THEN Return(http_open(r2, KHTTP_400))
                 ELSE [r2 EXCEPT !.lu = u, !.token = <<token>>,
                                 !.pc = "db_sess_new"]

\* sendlogin_new putting the id in stok and the token in sid
sendlogin_new_Crossed(r, s, id, ok) ==
    IF ~ok THEN [r |-> Exited(Issued(r, STMT_SESS_NEW)), sess |-> s]
    ELSE LET n == db_sess_new(r, s, id, r.token[1], r.lu[1])
             r1 == http_open(n.r, KHTTP_200)
             r2 == SetCookie(r1, KEY_SESSTOK, <<n.id>>, LoginExpiry)
             r3 == SetCookie(r2, KEY_SESSID, r.token, LoginExpiry)
         IN  [r |-> Return(r3), sess |-> n.sess]

\* sendlogin from db_sess_new on: id is the id the store assigns
sendlogin_new(r, s, id, ok) ==
    IF ~ok THEN [r |-> Exited(Issued(r, STMT_SESS_NEW)), sess |-> s]
    ELSE LET n == db_sess_new(r, s, id, r.token[1], r.lu[1])
             r1 == http_open(n.r, KHTTP_200)
             r2 == SetCookie(r1, KEY_SESSTOK, r.token, LoginExpiry)
             r3 == SetCookie(r2, KEY_SESSID, <<n.id>>, LoginExpiry)
         IN  [r |-> Return(r3), sess |-> n.sess]

\* sendlogout deleting every session of the user
sendlogout_AllSessions(r, s, ok) ==
    LET r0 == http_open([r EXCEPT !.handler = "sendlogout"], KHTTP_200)
        r1 == SetCookie(r0, KEY_SESSTOK, <<>>, LogoutExpiry)
        r2 == SetCookie(r1, KEY_SESSID, <<>>, LogoutExpiry)
    IN  IF r.sid = <<>> \/ r.stok = <<>> \/ r.u = <<>>
        THEN [r |-> Exited(r2), sess |-> s]
        ELSE IF ~ok THEN [r |-> Exited(Issued(r2, STMT_SESS_DEL)), sess |-> s]
        ELSE LET d == db_sess_del(r2, s, r.u[1], r.sid[1], r.stok[1])
             IN  [r |-> Return(d.r),
                  sess |-> {x \in d.sess : x.userid # r.u[1].id}]

\* sendlogout
sendlogout(r, s, ok) ==
    LET r0 == http_open([r EXCEPT !.handler = "sendlogout"], KHTTP_200)
        r1 == SetCookie(r0, KEY_SESSTOK, <<>>, LogoutExpiry)
        r2 == SetCookie(r1, KEY_SESSID, <<>>, LogoutExpiry)
    IN  IF r.sid = <<>> \/ r.stok = <<>> \/ r.u = <<>>
        THEN [r |-> Exited(r2), sess |-> s]   \* r->cookiemap[...] or u is NULL
        ELSE IF ~ok THEN [r |-> Exited(Issued(r2, STMT_SESS_DEL)), sess |-> s]
        ELSE LET d == db_sess_del(r2, s, r.u[1], r.sid[1], r.stok[1])
             IN  [r |-> Return(d.r), sess |-> d.sess]

(* ------------------------------------------------------------- main() *)

\* main_front testing the page and the format before the method
main_front_PageFirst(r, method, page, mime, alloc) ==
    LET r0 == [r EXCEPT !.method = method, !.page = page, !.mime = mime]
    IN  IF page = PAGE__MAX \/ mime # KMIME_APP_JSON
        THEN Return([http_open(r0, KHTTP_404)
                        EXCEPT !.body = [@ EXCEPT !.text = "Page not found."]])
        ELSE IF method # KMETHOD_GET /\ method # KMETHOD_POST
        THEN Return(http_open(r0, KHTTP_405))
        ELSE IF alloc = "ksql_alloc fails"
        THEN Return(http_open(r0, KHTTP_500))
        ELSE IF alloc = "ksql_open fails"
        THEN Exited(r0)
        ELSE [r0 EXCEPT !.pc = "db_sess_resolve"]

\* main_front without the test of the MIME type
main_front_AnyMime(r, method, page, mime, alloc) ==
    LET r0 == [r EXCEPT !.method = method, !.page = page, !.mime = mime]
    IN  IF method # KMETHOD_GET /\ method # KMETHOD_POST
        THEN Return(http_open(r0, KHTTP_405))
        ELSE IF page = PAGE__MAX
        THEN Return([http_open(r0, KHTTP_404)
                        EXCEPT !.body = [@ EXCEPT !.text = "Page not found."]])
        ELSE IF alloc = "ksql_alloc fails"
        THEN Return(http_open(r0, KHTTP_500))
        ELSE IF alloc = "ksql_open fails"
        THEN Exited(r0)
        ELSE [r0 EXCEPT !.pc = "db_sess_resolve"]

\* main, lines 530-552: method, page and MIME type, then the database;
\* alloc says how ksql_alloc and ksql_open end
main_front(r, method, page, mime, alloc) ==
    LET r0 == [r EXCEPT !.method = method, !.page = page, !.mime = mime]
    IN  IF method # KMETHOD_GET /\ method # KMETHOD_POST
        THEN Return(http_open(r0, KHTTP_405))
        ELSE IF page = PAGE__MAX \/ mime # KMIME_APP_JSON
        THEN Return([http_open(r0, KHTTP_404)
                        EXCEPT !.body = [@ EXCEPT !.text = "Page not found."]])
        ELSE IF alloc = "ksql_alloc fails"
        THEN Return(http_open(r0, KHTTP_500))
        ELSE IF alloc = "ksql_open fails"
        THEN Exited(r0)
        ELSE [r0 EXCEPT !.pc = "db_sess_resolve"]

\* main_resolve with the page test of the authorisation inverted
main_resolve_LoginOnly(r, us, s, sidc, stokc, ok) ==
    LET id == IF sidc # <<>> THEN sidc[1] ELSE -1
        token == IF stokc # <<>> THEN stokc[1] ELSE -1
        res == db_sess_resolve(us, s, id, token)
        r0 == [r EXCEPT !.sid = sidc, !.stok = stokc,
                        !.stmts = @ \o res.stmts]
        r1 == [r0 EXCEPT !.resolved = TRUE, !.u = res.u]
    IN  IF res.stmts # <<>> /\ ~ok THEN Exited(r0)
        ELSE IF r.page = PAGE_LOGIN /\ res.u = <<>>
        THEN Return(http_open(r1, KHTTP_403))
        ELSE [r1 EXCEPT !.pc = r.page]

\* main_resolve asking every page, login too, for a session
main_resolve_EveryPage(r, us, s, sidc, stokc, ok) ==
    LET id == IF sidc # <<>> THEN sidc[1] ELSE -1
        token == IF stokc # <<>> THEN stokc[1] ELSE -1
        res == db_sess_resolve(us, s, id, token)
        r0 == [r EXCEPT !.sid = sidc, !.stok = stokc,
                        !.stmts = @ \o res.stmts]
        r1 == [r0 EXCEPT !.resolved = TRUE, !.u = res.u]
    IN  IF res.stmts # <<>> /\ ~ok THEN Exited(r0)
        ELSE IF res.u = <<>>
        THEN Return(http_open(r1, KHTTP_403))
        ELSE [r1 EXCEPT !.pc = r.page]

\* main_resolve letting logout, like login, through without a session
main_resolve_LogoutOpen(r, us, s, sidc, stokc, ok) ==
    LET id == IF sidc # <<>> THEN sidc[1] ELSE -1
        token == IF stokc # <<>> THEN stokc[1] ELSE -1
        res == db_sess_resolve(us, s, id, token)
        r0 == [r EXCEPT !.sid = sidc, !.stok = stokc,
                        !.stmts = @ \o res.stmts]
        r1 == [r0 EXCEPT !.resolved = TRUE, !.u = res.u]
    IN  IF res.stmts # <<>> /\ ~ok THEN Exited(r0)
        ELSE IF r.page \notin {PAGE_LOGIN, PAGE_LOGOUT} /\ res.u = <<>>
        THEN Return(http_open(r1, KHTTP_403))
        ELSE [r1 EXCEPT !.pc = r.page]

\* main, lines 560-593: the session of the cookies, authorisation, and
\* the page to run
main_resolve(r, us, s, sidc, stokc, ok) ==
    LET id == IF sidc # <<>> THEN sidc[1] ELSE -1
        token == IF stokc # <<>> THEN stokc[1] ELSE -1
        res == db_sess_resolve(us, s, id, token)
        r0 == [r EXCEPT !.sid = sidc, !.stok = stokc,
                        !.stmts = @ \o res.stmts]
        r1 == [r0 EXCEPT !.resolved = TRUE, !.u = res.u]
    IN  IF res.stmts # <<>> /\ ~ok THEN Exited(r0)
        ELSE IF r.page # PAGE_LOGIN /\ res.u = <<>>
        THEN Return(http_open(r1, KHTTP_403))
        ELSE [r1 EXCEPT !.pc = r.page]

(* ------------------------------------------------------------ actions *)
(* I is the set of inputs a request may carry: I.methods, I.pages,       *)
(* I.mimes, I.cookies (the sid and stok cookies), I.emails, I.passes,    *)
(* and the outcomes of the environment: I.tokens (arc4random), I.allocs  *)
(* (ksql_alloc, ksql_open) and I.oks (a store statement).  nreq counts  *)
(* the requests started, where I.counted says so, up to I.maxreq.        *)

Init ==
    /\ user = [i \in Users |->
                 IF i = 1 THEN [email |-> "a@x", hash |-> NewHash(<<1>>)]
                          ELSE [email |-> "b@x", hash |-> NewHash(<<2>>)]]
    /\ sess = {}
    /\ rq = [p \in Procs |-> Blank]
    /\ nreq = 0

Front(p, I) ==
    /\ rq[p].pc = "idle"
    /\ nreq < I.maxreq
    /\ nreq' = IF I.counted THEN nreq + 1 ELSE nreq
    /\ \E method \in I.methods, page \in I.pages, mime \in I.mimes,
          alloc \in I.allocs :
          rq' = [rq EXCEPT ![p] = main_front(@, method, page, mime, alloc)]
    /\ UNCHANGED <<user, sess>>

Resolve(p, I) ==
    /\ rq[p].pc = "db_sess_resolve"
    /\ \E c \in I.cookies, ok \in I.oks :
          rq' = [rq EXCEPT ![p] = main_resolve(@, user, sess, c[1], c[2], ok)]
    /\ UNCHANGED <<user, sess, nreq>>

Index(p) ==
    /\ rq[p].pc = PAGE_INDEX
    /\ rq' = [rq EXCEPT ![p] = sendindex(@)]
    /\ UNCHANGED <<user, sess, nreq>>

Login(p, I) ==
    /\ rq[p].pc = PAGE_LOGIN
    /\ \E kpi \in I.emails, kpp \in I.passes, token \in I.tokens, ok \in I.oks :
          rq' = [rq EXCEPT ![p] = sendlogin(@, user, kpi, kpp, token, ok)]
    /\ UNCHANGED <<user, sess, nreq>>

LoginNew(p, I) ==
    /\ rq[p].pc = "db_sess_new"
    /\ \E id \in NewIds(sess), ok \in I.oks :
          LET n == sendlogin_new(rq[p], sess, id, ok)
          IN  /\ rq' = [rq EXCEPT ![p] = n.r]
              /\ sess' = n.sess
    /\ UNCHANGED <<user, nreq>>

Logout(p, I) ==
    /\ rq[p].pc = PAGE_LOGOUT
    /\ \E ok \in I.oks :
          LET n == sendlogout(rq[p], sess, ok)
          IN  /\ rq' = [rq EXCEPT ![p] = n.r]
              /\ sess' = n.sess
    /\ UNCHANGED <<user, nreq>>

ModEmail(p, I) ==
    /\ rq[p].pc = PAGE_USER_MOD_EMAIL
    /\ \E kp \in I.emails, ok \in I.oks :
          LET n == sendmodemail(rq[p], user, kp, ok)
          IN  /\ rq' = [rq EXCEPT ![p] = n.r]
              /\ user' = n.user
    /\ UNCHANGED <<sess, nreq>>

ModPass(p, I) ==
    /\ rq[p].pc = PAGE_USER_MOD_PASS
    /\ \E kp \in I.passes, ok \in I.oks :
          LET n == sendmodpass(rq[p], user, kp, ok)
          IN  /\ rq' = [rq EXCEPT ![p] = n.r]
              /\ user' = n.user
    /\ UNCHANGED <<sess, nreq>>

\* the process is gone; the next request is a new process
Exit(p) ==
    /\ rq[p].pc = "done"
    /\ rq' = [rq EXCEPT ![p] = Blank]
    /\ UNCHANGED <<user, sess, nreq>>

Step(p, I) ==
    \/ Front(p, I)
    \/ Resolve(p, I)
    \/ Index(p)
    \/ Login(p, I)
    \/ LoginNew(p, I)
    \/ Logout(p, I)
    \/ ModEmail(p, I)
    \/ ModPass(p, I)
    \/ Exit(p)

Opt(S) == {<<>>} \cup {<<x>> : x \in S}

\* one request at a time, any input, the store may fail
Inputs ==
    [methods |-> {KMETHOD_GET, KMETHOD_POST, "DELETE"},
     pages |-> Pages \cup {PAGE__MAX},
     mimes |-> {KMIME_APP_JSON, "text/html"},
     cookies |-> Opt(SessIds \cup {-1}) \X Opt(Tokens),
     emails |-> Opt(Emails),
     passes |-> Opt(Passwords),
     tokens |-> Tokens,
     maxreq |-> 1, counted |-> FALSE,
     allocs |-> {"ok", "ksql_alloc fails", "ksql_open fails"},
     oks |-> BOOLEAN]

Next == \E p \in {1} : Step(p, Inputs)

Spec == Init /\ [][Next]_vars

\* MaxReq requests, two at a time, each with no cookie or with an id and
\* a token as cookies; every session has token 0; the store works
InputsC ==
    [methods |-> {KMETHOD_GET},
     pages |-> Pages \ {PAGE_USER_MOD_PASS},
     mimes |-> {KMIME_APP_JSON},
     cookies |-> {<<<<>>, <<>>>>} \cup {<<<<i>>, <<k>>>> : i \in SessIds, k \in Tokens},
     emails |-> {<<e>> : e \in Emails},
     passes |-> {<<w>> : w \in Passwords},
     tokens |-> {0},
     maxreq |-> MaxReq, counted |-> TRUE,
     allocs |-> {"ok"},
     oks |-> {TRUE}]

StepC(p, I) ==
    \/ Front(p, I)
    \/ Resolve(p, I)
    \/ Index(p)
    \/ Login(p, I)
    \/ LoginNew(p, I)
    \/ Logout(p, I)
    \/ ModEmail(p, I)
    \/ Exit(p)

NextC == \E p \in Procs : StepC(p, InputsC)

SpecC == Init /\ [][NextC]_vars

\* passwords one byte short of, as long as, and one byte longer than
\* hash[] of db_user_mod_pass
LongPasswords ==
    {[i \in 1 .. n |-> 1] : n \in {HASHSIZE - 1, HASHSIZE, HASHSIZE + 1}}

\* one request at a time, a login or a password change by POST, with
\* short and long passwords; the store works
InputsP ==
    [methods |-> {KMETHOD_POST},
     pages |-> {PAGE_LOGIN, PAGE_USER_MOD_PASS},
     mimes |-> {KMIME_APP_JSON},
     cookies |-> {<<<<>>, <<>>>>} \cup {<<<<i>>, <<k>>>> : i \in SessIds, k \in Tokens},
     emails |-> {<<e>> : e \in {"a@x", "b@x"}},
     passes |-> {<<w>> : w \in Passwords \cup LongPasswords},
     tokens |-> {0},
     maxreq |-> 1, counted |-> FALSE,
     allocs |-> {"ok"},
     oks |-> {TRUE}]

StepP(p, I) ==
    \/ Front(p, I)
    \/ Resolve(p, I)
    \/ Login(p, I)
    \/ LoginNew(p, I)
    \/ ModPass(p, I)
    \/ Exit(p)

NextP == \E p \in {1} : StepP(p, InputsP)

SpecP == Init /\ [][NextP]_vars

(* ==================================================================== *)
(* The claims.                                                           *)
(* ==================================================================== *)

Supported(r) == r.method \in {KMETHOD_GET, KMETHOD_POST}

\* a request past the front checks of main
Routed(r) == Supported(r) /\ r.page \in Pages /\ r.mime = KMIME_APP_JSON

NoBody == [text |-> "", user |-> <<>>]

C1_Rejected(r) ==
    /\ r.pc = "done"
    /\ r.status = KHTTP_403
    /\ r.handler = ""
    /\ ~r.crashed
    /\ r.cookies = <<>> /\ r.body = NoBody /\ r.log = <<>>
    /\ \A i \in 1 .. Len(r.stmts) : r.stmts[i] = STMT_SESS_GET

(* C1: a request with a supported method, a page other than login and the
   JSON format, for which db_sess_resolve returned no user, ends with 403
   and nothing else in the response, no page function has run, the only
   statement it has issued is the session lookup, and the step that
   rejects it leaves the user and sess tables as they were. *)
C1_Forbidden ==
    [][\A p \in Procs :
         (Routed(rq'[p]) /\ rq'[p].page # PAGE_LOGIN
            /\ rq'[p].resolved /\ rq'[p].u = <<>>)
         => /\ C1_Rejected(rq'[p])
            /\ (rq'[p] # rq[p] => user' = user /\ sess' = sess)]_vars

\* a usermodemail POST rejected: its cookies are the id of a live session
\* and another token than that session's
C1_Witness ==
    /\ rq[1].pc = "done" /\ rq[1].resolved /\ rq[1].u = <<>>
    /\ rq[1].page = PAGE_USER_MOD_EMAIL /\ rq[1].method = KMETHOD_POST
    /\ rq[1].status = KHTTP_403
    /\ rq[1].sid = <<1>> /\ rq[1].stok = <<1>>
    /\ \E x \in sess : x.id = 1 /\ x.token = 0

C2_Valid(e, w) ==
    \E i \in Users : user[i].email = e /\ CheckPass(w, user[i].hash)

C2_Outcome(r) ==
    IF r.email # <<>> /\ r.pass # <<>> /\ C2_Valid(r.email[1], r.pass[1])
    THEN /\ r.status = KHTTP_200
         /\ Len(r.cookies) = 2
         /\ r.lu # <<>> /\ r.lu[1].email = r.email[1]
         /\ \E x \in sess : /\ x.userid = r.lu[1].id
                            /\ r.cookies[1].value = <<x.token>>
                            /\ r.cookies[2].value = <<x.id>>
    ELSE /\ r.status = KHTTP_400
         /\ r.cookies = <<>> /\ r.lu = <<>>
         /\ \A i \in 1 .. Len(r.stmts) : r.stmts[i] # STMT_SESS_NEW

(* C2: a login request past the front checks always reaches sendlogin,
   whatever db_sess_resolve returned, and what it answers is decided by
   the submitted e-mail and password alone: 400 with no cookie when a
   field is missing or no user has that e-mail and password, and
   otherwise 200 with a session of the user who has them. *)
C2_LoginAlwaysChecks ==
    \A p \in Procs :
        (Routed(rq[p]) /\ rq[p].page = PAGE_LOGIN /\ rq[p].resolved)
        => /\ rq[p].pc = PAGE_LOGIN \/ rq[p].handler = "sendlogin"
           /\ rq[p].status # KHTTP_403
           /\ (rq[p].pc = "done" /\ ~rq[p].crashed => C2_Outcome(rq[p]))

\* a login that succeeds while carrying the live session of the other
\* user
C2_Witness ==
    /\ rq[1].pc = "done" /\ rq[1].page = PAGE_LOGIN /\ rq[1].status = KHTTP_200
    /\ rq[1].u # <<>> /\ rq[1].lu # <<>> /\ rq[1].u[1].id # rq[1].lu[1].id

\* a login that succeeds carrying the cookies of no session
C2_WitnessStale ==
    /\ rq[1].pc = "done" /\ rq[1].page = PAGE_LOGIN /\ rq[1].status = KHTTP_200
    /\ rq[1].sid # <<>> /\ rq[1].stok # <<>> /\ rq[1].u = <<>>

(* C3: a request whose method is neither GET nor POST ends with 405, for
   every page (recognized or not) and every format, before its cookies
   are read: db_sess_resolve has not run and no statement was issued. *)
C3_MethodNotAllowed ==
    \A p \in Procs :
        (rq[p].pc # "idle" /\ ~Supported(rq[p]))
        => /\ rq[p].pc = "done"
           /\ rq[p].status = KHTTP_405
           /\ ~rq[p].resolved /\ rq[p].stmts = <<>> /\ rq[p].handler = ""
           /\ rq[p].sid = <<>> /\ rq[p].stok = <<>> /\ rq[p].u = <<>>
           /\ rq[p].cookies = <<>> /\ rq[p].body = NoBody
           /\ ~rq[p].crashed

\* a DELETE of an unknown page in another format, with a session live
C3_Witness ==
    /\ rq[1].pc = "done" /\ rq[1].method = "DELETE"
    /\ rq[1].page = PAGE__MAX /\ rq[1].mime # KMIME_APP_JSON
    /\ rq[1].status = KHTTP_405
    /\ sess # {}

(* C4: a GET or POST request for an unrecognized page, or for a format
   other than JSON, ends with 404 before its cookies are read:
   db_sess_resolve has not run and no statement was issued, whether or
   not a session is live. *)
C4_NotFound ==
    \A p \in Procs :
        (rq[p].pc # "idle" /\ Supported(rq[p])
            /\ (rq[p].page = PAGE__MAX \/ rq[p].mime # KMIME_APP_JSON))
        => /\ rq[p].pc = "done"
           /\ rq[p].status = KHTTP_404
           /\ rq[p].body = [text |-> "Page not found.", user |-> <<>>]
           /\ ~rq[p].resolved /\ rq[p].stmts = <<>> /\ rq[p].handler = ""
           /\ rq[p].sid = <<>> /\ rq[p].stok = <<>> /\ rq[p].u = <<>>
           /\ rq[p].cookies = <<>>
           /\ ~rq[p].crashed

\* a recognized page asked for in another format, with a session live
C4_Witness ==
    /\ rq[1].pc = "done" /\ rq[1].method = KMETHOD_GET
    /\ rq[1].page = PAGE_INDEX /\ rq[1].mime # KMIME_APP_JSON
    /\ rq[1].status = KHTTP_404
    /\ sess # {}

C5_FailedVerify(r) == r.handler = "sendlogin" /\ r.lookup # "" /\ r.lu = <<>>

C5_Observable(r) ==
    [pc |-> r.pc, status |-> r.status, cookies |-> r.cookies, body |-> r.body,
     log |-> r.log, crashed |-> r.crashed,
     stmts |-> SelectSeq(r.stmts, LAMBDA s : s # STMT_SESS_GET)]

C5_Failure ==
    [pc |-> "done", status |-> KHTTP_400, cookies |-> <<>>, body |-> NoBody,
     log |-> <<>>, crashed |-> FALSE, stmts |-> <<STMT_USER_LOOKUP>>]

(* C5: db_user_find returns NULL both for an e-mail no user has and for a
   user's e-mail with another password, and every login that it failed
   answers the same: 400, no cookie, no body, no log line, and only the
   e-mail lookup issued, so two failed logins cannot be told apart. *)
C5_EnumerationSafe ==
    /\ \A e \in Emails, w \in Passwords :
          ~C2_Valid(e, w) => db_user_find(user, e, w) = <<>>
    /\ \A p \in Procs :
          C5_FailedVerify(rq[p]) => C5_Observable(rq[p]) = C5_Failure
    /\ \A p, q \in Procs :
          C5_FailedVerify(rq[p]) /\ C5_FailedVerify(rq[q])
          => C5_Observable(rq[p]) = C5_Observable(rq[q])

\* a login with an unknown e-mail beside one with a wrong password
C5_Witness ==
    /\ C5_FailedVerify(rq[1]) /\ rq[1].lookup = "no row"
    /\ C5_FailedVerify(rq[2]) /\ rq[2].lookup = "row"

C6_Owner(x) == <<[id |-> x.userid, email |-> user'[x.userid].email]>>

(* C6: the step that completes a successful login of the user U that
   db_user_find returned adds exactly one sess row, the row is bound to
   U's id, the stok and sid cookies of the response carry that row's
   token and id, resolving that pair gives U's id and current e-mail;
   and every live row resolves to its own user, also while other logins
   are in progress. *)
C6_LoginRoundTrip ==
    [][\A p \in Procs :
         /\ (rq[p].pc = "db_sess_new" /\ rq'[p] # rq[p])
            => /\ rq'[p].pc = "done" /\ rq'[p].status = KHTTP_200
               /\ user' = user
               /\ \E x \in sess' \ sess :
                    /\ sess' = sess \cup {x}
                    /\ x.userid = rq[p].lu[1].id
                    /\ rq'[p].cookies =
                         <<[name |-> KEY_SESSTOK, value |-> <<x.token>>,
                            expires |-> LoginExpiry],
                           [name |-> KEY_SESSID, value |-> <<x.id>>,
                            expires |-> LoginExpiry]>>
                    /\ db_sess_resolve(user', sess', rq'[p].cookies[2].value[1],
                                       rq'[p].cookies[1].value[1]).u
                         = <<[id |-> rq[p].lu[1].id,
                              email |-> user'[rq[p].lu[1].id].email]>>
         /\ \A x \in sess' :
               db_sess_resolve(user', sess', x.id, x.token).u = C6_Owner(x)]_vars

\* a finished login of a user while another login of the same user is
\* between its lookup and its insert, the first one's session live
C6_Witness ==
    /\ rq[1].pc = "done" /\ rq[1].handler = "sendlogin" /\ rq[1].status = KHTTP_200
    /\ rq[2].pc = "db_sess_new" /\ rq[2].lu = rq[1].lu
    /\ \E x \in sess : rq[1].cookies[2].value = <<x.id>>

C7_Forbidden(pair, page) ==
    main_resolve([Blank EXCEPT !.pc = "db_sess_resolve",
                               !.method = KMETHOD_GET, !.page = page,
                               !.mime = KMIME_APP_JSON],
                 user', sess', pair[1], pair[2], TRUE).status = KHTTP_403

(* C7: the login response carries two cookies that expire a year from
   now; a logout that runs with the cookie pair of a live session answers
   200 with the stok and sid cookies emptied and expiring at the epoch,
   removes exactly the row of that pair, and right after it resolving the
   pair gives no user and every page but login answers 403 to it. *)
C7_LoginLogout ==
    [][\A p \in Procs :
         /\ (rq[p].pc = "db_sess_new" /\ rq'[p] # rq[p] /\ ~rq'[p].crashed)
            => /\ Len(rq'[p].cookies) = 2
               /\ \A i \in 1 .. 2 :
                     rq'[p].cookies[i].expires
                        = [base |-> "now", offset |-> 60 * 60 * 24 * 365]
         /\ (rq[p].pc = PAGE_LOGOUT /\ rq'[p] # rq[p] /\ ~rq'[p].crashed)
            => /\ rq'[p].pc = "done" /\ rq'[p].status = KHTTP_200
               /\ rq'[p].cookies =
                    <<[name |-> KEY_SESSTOK, value |-> <<>>,
                       expires |-> [base |-> "epoch", offset |-> 0]],
                      [name |-> KEY_SESSID, value |-> <<>>,
                       expires |-> [base |-> "epoch", offset |-> 0]]>>
               /\ \E x \in sess :
                    /\ <<x.id>> = rq[p].sid /\ <<x.token>> = rq[p].stok
                    /\ sess' = sess \ {x}
               /\ db_sess_resolve(user', sess', rq[p].sid[1], rq[p].stok[1]).u
                    = <<>>
               /\ \A page \in Pages \ {PAGE_LOGIN} :
                     C7_Forbidden(<<rq[p].sid, rq[p].stok>>, page)]_vars

\* a finished logout, its session gone, the other session still live
C7_Witness ==
    /\ rq[1].pc = "done" /\ rq[1].handler = "sendlogout" /\ ~rq[1].crashed
    /\ Len(rq[1].cookies) = 2
    /\ \A x \in sess : <<x.id>> # rq[1].sid
    /\ sess # {}

C8_Twice(s, u, id, token) ==
    LET d1 == db_sess_del(Blank, s, u, id, token)
        d2 == db_sess_del(Blank, d1.sess, u, id, token)
    IN  /\ ~d1.r.crashed /\ ~d2.r.crashed
        /\ d2.r = d1.r
        /\ d2.sess = d1.sess
        /\ ((\A x \in s : <<x.id, x.token, x.userid>> # <<id, token, u.id>>)
              => d1.sess = s)

(* C8: db_sess_del called for a session that is not there (already
   deleted, or never created) is no error and answers as the call that
   deleted it: the logout ends 200 with the same log line and does not
   crash, the tables are as the first call left them, and a second call
   with the same arguments changes nothing. *)
C8_DeleteIdempotent ==
    [][\A p \in Procs :
         (rq[p].pc = PAGE_LOGOUT /\ rq'[p] # rq[p])
         => /\ rq'[p].pc = "done" /\ ~rq'[p].crashed
            /\ rq'[p].status = KHTTP_200
            /\ rq'[p].log = <<[actor |-> rq[p].u[1].email,
                               action |-> "session deleted", arg |-> ""]>>
            /\ user' = user
            /\ sess' = sess \ {[id |-> rq[p].sid[1], token |-> rq[p].stok[1],
                                userid |-> rq[p].u[1].id]}
            /\ \A id \in SessIds, token \in Tokens :
                  /\ C8_Twice(sess, rq[p].u[1], id, token)
                  /\ C8_Twice(sess', rq[p].u[1], id, token)]_vars

\* two finished logouts of the same session of the same user: the second
\* db_sess_del found no row
C8_Witness ==
    /\ rq[1].pc = "done" /\ rq[1].handler = "sendlogout"
    /\ rq[2].pc = "done" /\ rq[2].handler = "sendlogout"
    /\ rq[1].sid = rq[2].sid /\ rq[1].stok = rq[2].stok /\ rq[1].u = rq[2].u
    /\ rq[1].status = KHTTP_200 /\ rq[2].status = KHTTP_200

C9_Wrong(S) ==
    {<<S.id, S.token, i>> : i \in Users \ {S.userid}}
    \cup {<<id, S.token, S.userid>> : id \in SessIds \ {S.id}}
    \cup {<<S.id, token, S.userid>> : token \in Tokens \ {S.token}}

(* C9: for every live session S of a user A, a db_sess_del with S's id
   and token and another user, or with A and S's token and another id, or
   with A and S's id and another token, leaves S in the table, S's id and
   token still resolve to A, and it removes no row at all unless its
   three values are those of another row. *)
C9_OwnershipChecked ==
    \A S \in sess : \A a \in C9_Wrong(S) :
        LET d == db_sess_del(Blank, sess,
                             [id |-> a[3], email |-> user[a[3]].email],
                             a[1], a[2])
        IN  /\ S \in d.sess
            /\ db_sess_resolve(user, d.sess, S.id, S.token).u
                 = <<[id |-> S.userid, email |-> user[S.userid].email]>>
            /\ (\A x \in sess : <<x.id, x.token, x.userid>> # a)
               => d.sess = sess

\* a finished logout that ran as one user with the id and token of a
\* session that is another user's, the session live
C9_Witness ==
    /\ rq[1].pc = "done" /\ rq[1].handler = "sendlogout" /\ ~rq[1].crashed
    /\ \E S \in sess : /\ <<S.id>> = rq[1].sid /\ <<S.token>> = rq[1].stok
                       /\ S.userid # rq[1].u[1].id

(* C10: a usermodemail request for the e-mail of another user ends 400,
   leaves the user table (and the sess table) as it was and writes no log
   line; for any other e-mail it ends 200, the requesting user's e-mail
   becomes the new one, nothing else changes, and exactly one "changed
   email" line is written. *)
C10_ChangeEmail ==
    [][\A p \in Procs :
         (rq[p].pc = PAGE_USER_MOD_EMAIL /\ rq'[p] # rq[p]
             /\ ~rq'[p].crashed /\ rq'[p].email # <<>>)
         => LET i == rq[p].u[1].id
                e == rq'[p].email[1]
            IN  /\ rq'[p].pc = "done" /\ sess' = sess
                /\ IF \E j \in Users \ {i} : user[j].email = e
                   THEN /\ rq'[p].status = KHTTP_400
                        /\ user' = user
                        /\ rq'[p].log = <<>>
                   ELSE /\ rq'[p].status = KHTTP_200
                        /\ user' = [user EXCEPT ![i].email = e]
                        /\ rq'[p].log = <<[actor |-> rq[p].u[1].email,
                                           action |-> "changed email",
                                           arg |-> e]>>]_vars

\* a change to the other user's e-mail refused
C10_Witness ==
    /\ rq[1].pc = "done" /\ rq[1].handler = "sendmodemail"
    /\ rq[1].status = KHTTP_400 /\ rq[1].email # <<>>
    /\ \E j \in Users : j # rq[1].u[1].id /\ user[j].email = rq[1].email[1]

\* a change accepted
C10_WitnessOk ==
    /\ rq[1].pc = "done" /\ rq[1].handler = "sendmodemail"
    /\ rq[1].status = KHTTP_200 /\ Len(rq[1].log) = 1
    /\ user[rq[1].u[1].id].email = "c@x"

C11_Matches(p, x) ==
    /\ rq[p].pc = PAGE_LOGOUT /\ rq'[p] # rq[p]
    /\ rq[p].sid = <<x.id>> /\ rq[p].stok = <<x.token>>
    /\ rq[p].u # <<>> /\ rq[p].u[1].id = x.userid

(* C11: in every step of every request (a login of any user, an index
   read, an e-mail change, a password change, a logout) every live sess
   row either is still in the table, and then its id and token resolve to
   its owner, or the step is a logout whose sid and stok cookies are the
   row's id and token and whose user is the row's owner. *)
C11_SessionPersists ==
    [][\A x \in sess :
         IF x \in sess'
         THEN db_sess_resolve(user', sess', x.id, x.token).u
                = <<[id |-> x.userid, email |-> user'[x.userid].email]>>
         ELSE \E p \in Procs : C11_Matches(p, x)]_vars

\* a finished logout of a session of a user whose other session is live
C11_Witness ==
    /\ rq[1].pc = "done" /\ rq[1].handler = "sendlogout" /\ ~rq[1].crashed
    /\ \E x \in sess : x.userid = rq[1].u[1].id /\ <<x.id>> # rq[1].sid
    /\ \A x \in sess : <<x.id>> # rq[1].sid

\* a finished password change of a user whose session is live
C11_WitnessPass ==
    /\ rq[1].pc = "done" /\ rq[1].handler = "sendmodpass" /\ ~rq[1].crashed
    /\ rq[1].status = KHTTP_200
    /\ \E x \in sess : <<x.id>> = rq[1].sid /\ <<x.token>> = rq[1].stok

\* what main passes to db_sess_resolve for a cookie
C12_Arg(cookie) == IF cookie # <<>> THEN cookie[1] ELSE -1

C12_Row(id, token) == {x \in sess : x.id = id /\ x.token = token}

C12_Count(stmts, stmt) == Len(SelectSeq(stmts, LAMBDA s : s = stmt))

(* C12: db_sess_resolve called with -1 as id or as token returns NULL and
   issues no statement; called with any other id and token it issues
   STMT_SESS_GET once and returns the user (id and e-mail) of the sess row
   that has both the id and the token, or NULL when no row has them.
   main passes -1 for a sid or stok cookie that is missing, so the step of
   a request that resolves its cookies issues no statement when a cookie
   is missing or -1 and exactly one otherwise. *)
C12_Resolve ==
    [][/\ \A id \in SessIds \cup {-1}, token \in Tokens \cup {-1} :
            LET res == db_sess_resolve(user, sess, id, token)
            IN  IF id = -1 \/ token = -1
                THEN res.u = <<>> /\ res.stmts = <<>>
                ELSE /\ res.stmts = <<STMT_SESS_GET>>
                     /\ IF C12_Row(id, token) = {}
                        THEN res.u = <<>>
                        ELSE \E x \in C12_Row(id, token) :
                               res.u = <<[id |-> x.userid,
                                          email |-> user[x.userid].email]>>
       /\ \A p \in Procs :
            (rq[p].pc = "db_sess_resolve" /\ rq'[p] # rq[p])
            => LET id == C12_Arg(rq'[p].sid)
                   token == C12_Arg(rq'[p].stok)
               IN  /\ user' = user /\ sess' = sess
                   /\ IF id = -1 \/ token = -1
                      THEN /\ rq'[p].stmts = <<>>
                           /\ rq'[p].resolved /\ rq'[p].u = <<>>
                           /\ ~rq'[p].crashed
                      ELSE /\ rq'[p].stmts = <<STMT_SESS_GET>>
                           /\ ~rq'[p].crashed
                              => /\ rq'[p].resolved
                                 /\ rq'[p].u
                                      = db_sess_resolve(user, sess, id, token).u]_vars

\* a request whose sid cookie is missing and whose stok cookie is the
\* token of a live session: resolved to no user, no statement issued
C12_Witness ==
    /\ rq[1].resolved /\ rq[1].sid = <<>> /\ rq[1].stok # <<>>
    /\ rq[1].u = <<>> /\ rq[1].stmts = <<>>
    /\ \E x \in sess : <<x.token>> = rq[1].stok

\* a request whose cookies are the id and token of a live session,
\* resolved to its owner with one statement
C12_WitnessFound ==
    /\ rq[1].resolved /\ rq[1].u # <<>> /\ rq[1].stmts = <<STMT_SESS_GET>>
    /\ \E x \in sess : /\ <<x.id>> = rq[1].sid /\ <<x.token>> = rq[1].stok
                       /\ x.userid = rq[1].u[1].id

\* a request whose page function found its field missing
C13_Invalid(r) ==
    \/ r.handler = "sendmodemail" /\ r.email = <<>>
    \/ r.handler = "sendmodpass" /\ r.pass = <<>>
    \/ r.handler = "sendlogin" /\ (r.email = <<>> \/ r.pass = <<>>)

(* C13 as stated: a usermodemail request without the e-mail field, a
   usermodpass request without the password field and a login request
   without e-mail or password ends 400, and the request has issued no
   statement at all when it is rejected. *)
C13_NoStoreAccess ==
    \A p \in Procs :
        C13_Invalid(rq[p])
        => /\ rq[p].pc = "done" /\ rq[p].status = KHTTP_400
           /\ rq[p].stmts = <<>>

(* C13: the step of sendmodemail, sendmodpass or sendlogin that finds its
   field missing ends the request with 400, no cookie, no body and no log
   line, issues no statement and leaves the user and sess tables as they
   were; the only statement such a request has issued is the session
   lookup of main, which ran before the page function: once for
   usermodemail and usermodpass, at most once for login. *)
C13_ValidationFirst ==
    [][\A p \in Procs :
         (rq[p].pc \in {PAGE_USER_MOD_EMAIL, PAGE_USER_MOD_PASS, PAGE_LOGIN}
             /\ C13_Invalid(rq'[p]))
         => /\ rq'[p].pc = "done" /\ rq'[p].status = KHTTP_400
            /\ ~rq'[p].crashed
            /\ rq'[p].cookies = <<>> /\ rq'[p].body = NoBody
            /\ rq'[p].log = <<>>
            /\ rq'[p].stmts = rq[p].stmts
            /\ user' = user /\ sess' = sess
            /\ IF rq[p].pc = PAGE_LOGIN
               THEN rq'[p].stmts \in {<<>>, <<STMT_SESS_GET>>}
               ELSE rq'[p].stmts = <<STMT_SESS_GET>>]_vars

\* a usermodemail request without the field, rejected after its session
\* was looked up
C13_Witness ==
    /\ rq[1].pc = "done" /\ rq[1].handler = "sendmodemail"
    /\ rq[1].email = <<>> /\ rq[1].status = KHTTP_400
    /\ rq[1].stmts = <<STMT_SESS_GET>> /\ rq[1].u # <<>>

\* a login without its password, rejected with no statement issued
C13_WitnessLogin ==
    /\ rq[1].pc = "done" /\ rq[1].handler = "sendlogin"
    /\ rq[1].email # <<>> /\ rq[1].pass = <<>> /\ rq[1].status = KHTTP_400
    /\ rq[1].stmts = <<>>

\* the step in which a statement of request p fails
C14_Fails(p) ==
    ~rq[p].crashed /\ rq'[p].crashed /\ rq'[p].stmts # rq[p].stmts

(* C14 as stated: the step in which a statement of a request fails
   (STMT_SESS_GET, STMT_USER_LOOKUP, STMT_SESS_NEW, STMT_SESS_DEL,
   STMT_USER_MOD_EMAIL, STMT_USER_MOD_HASH) ends the request, the
   statement was issued once, the user and sess tables are as they were
   before the request, and what the request has answered is a server
   error: nothing but the failed exit of the process, or 500; never the
   200 and the cookies of the operation that failed. *)
C14_AllOrNothing ==
    [][\A p \in Procs :
         C14_Fails(p)
         => /\ rq'[p].pc = "done"
            /\ Len(rq'[p].stmts) = Len(rq[p].stmts) + 1
            /\ C12_Count(rq'[p].stmts, rq'[p].stmts[Len(rq'[p].stmts)]) = 1
            /\ user' = user /\ sess' = sess
            /\ rq'[p].status \in {0, KHTTP_500}
            /\ rq'[p].cookies = <<>>]_vars

(* What does hold of C14: the step in which a statement fails ends the
   request, the statement was issued once, and the step leaves the user
   and sess tables as they were; no request changes a table in a step
   before its last, so the tables are as before the request. *)
C14_NoPartialMutation ==
    [][\A p \in Procs :
         /\ C14_Fails(p)
            => /\ rq'[p].pc = "done"
               /\ Len(rq'[p].stmts) = Len(rq[p].stmts) + 1
               /\ C12_Count(rq'[p].stmts, rq'[p].stmts[Len(rq'[p].stmts)]) = 1
               /\ user' = user /\ sess' = sess
         /\ (rq'[p] # rq[p] /\ rq'[p].pc # "done" /\ rq[p].pc # "done")
            => user' = user /\ sess' = sess]_vars

\* a usermodpass request whose UPDATE failed after 200 was written
C14_FailedAfterSuccess ==
    /\ rq[1].crashed /\ rq[1].handler = "sendmodpass"
    /\ rq[1].stmts = <<STMT_SESS_GET, STMT_USER_MOD_HASH>>
    /\ rq[1].status = KHTTP_200

\* the step of sendmodpass that ran its UPDATE
C15_Changed(p) ==
    /\ rq[p].pc = PAGE_USER_MOD_PASS /\ rq'[p] # rq[p]
    /\ rq'[p].pass # <<>> /\ ~rq'[p].crashed

\* the step answers 200 and changes the hash of the user, nothing else
C15_OnlyHash(p) ==
    LET i == rq[p].u[1].id
    IN  /\ rq'[p].pc = "done" /\ rq'[p].status = KHTTP_200
        /\ sess' = sess
        /\ \A j \in Users : /\ user'[j].email = user[j].email
                             /\ j # i => user'[j] = user[j]

\* after the step the new password verifies and the previous one, when
\* it is another, does not
C15_Verifies(p) ==
    LET i == rq[p].u[1].id
        new == rq'[p].pass[1]
        me == <<[id |-> i, email |-> user'[i].email]>>
    IN  /\ db_user_find(user', user'[i].email, new) = me
        /\ \A old \in Passwords \cup LongPasswords :
              (old # new /\ db_user_find(user, user[i].email, old) # <<>>)
              => db_user_find(user', user'[i].email, old) = <<>>

(* C15 as stated: a usermodpass request of an authenticated user with a
   password, short or at least as long as the 64 bytes of hash[], whose
   UPDATE did not fail, ends 200, changes the hash of that user and
   nothing else, and afterwards db_user_find with the user's e-mail
   returns the user for the new password and NULL for the previous
   password when that is another one. *)
C15_ChangePassword ==
    [][\A p \in Procs :
         C15_Changed(p) => C15_OnlyHash(p) /\ C15_Verifies(p)]_vars

(* What does hold of C15: the same for every password shorter than
   hash[], replacing a previous password of any length; and for every
   password the request ends 200 and changes nothing but the hash of its
   user. *)
C15_ShortPasswords ==
    [][\A p \in Procs :
         C15_Changed(p)
         => /\ C15_OnlyHash(p)
            /\ Len(rq'[p].pass[1]) < HASHSIZE => C15_Verifies(p)]_vars

\* a finished change to a password of 64 bytes: the stored hash is not
\* the password, and a login with it is refused
C15_Truncated ==
    /\ rq[1].pc = "done" /\ rq[1].handler = "sendlogin"
    /\ rq[1].status = KHTTP_400 /\ rq[1].lookup = "row"
    /\ rq[1].pass # <<>> /\ Len(rq[1].pass[1]) >= HASHSIZE
    /\ \E i \in Users : /\ user[i].email = rq[1].email[1]
                        /\ user[i].hash = NewHash(rq[1].pass[1])

\* a struct user as the code passes it on: id and e-mail, nothing else
C16_UserOnly(up) ==
    up # <<>> => /\ DOMAIN up[1] = {"id", "email"}
                 /\ up[1].id \in Users /\ up[1].email \in Emails

\* what a request has put out: body, cookies and log lines
C16_Output(r) == [body |-> r.body, cookies |-> r.cookies, log |-> r.log]

\* the user table with other hashes
C16_Rehashed(H) == [j \in Users |-> [user[j] EXCEPT !.hash = H[j]]]

\* the next step of request r puts out the same with the hashes H as
\* with the stored ones, but for a login whose verification they decide
C16_Independent(r, H) ==
    LET us == C16_Rehashed(H)
    IN  /\ r.pc = "db_sess_resolve"
           => \A c \in Inputs.cookies :
                 main_resolve(r, us, sess, c[1], c[2], TRUE)
                   = main_resolve(r, user, sess, c[1], c[2], TRUE)
        /\ r.pc = PAGE_USER_MOD_EMAIL
           => \A kp \in Inputs.emails :
                 sendmodemail(r, us, kp, TRUE).r
                   = sendmodemail(r, user, kp, TRUE).r
        /\ r.pc = PAGE_USER_MOD_PASS
           => \A kp \in Inputs.passes :
                 C16_Output(sendmodpass(r, us, kp, TRUE).r)
                   = C16_Output(sendmodpass(r, user, kp, TRUE).r)
        /\ r.pc = PAGE_LOGIN
           => \A kpi \in Inputs.emails, kpp \in Inputs.passes :
                 (kpi # <<>> /\ kpp # <<>>
                    /\ db_user_find(us, kpi[1], kpp[1])
                         # db_user_find(user, kpi[1], kpp[1]))
                 \/ sendlogin(r, us, kpi, kpp, 0, TRUE)
                      = sendlogin(r, user, kpi, kpp, 0, TRUE)

(* C16: the hash column is read by db_user_find alone and stays there:
   every struct user a request holds (the session's user, the user
   db_user_find returned) and the user object of every body has the
   fields id and email and no other; a body is that object or a fixed
   text; a cookie is named stok or sid and its value is the token drawn by
   the request, the id of a session, or empty; a log line is the e-mail of
   the acting user, a fixed action and, for an e-mail change, the new
   e-mail; and what the next step of a request puts out does not change
   when the stored hashes are replaced by others, but for the outcome of
   a login's verification. *)
C16_HashNeverOutput ==
    \A p \in Procs :
        LET r == rq[p]
        IN  /\ C16_UserOnly(r.u) /\ C16_UserOnly(r.lu)
            /\ C16_UserOnly(r.body.user)
            /\ r.body.text \in {"", "Page not found."}
            /\ \A i \in 1 .. Len(r.cookies) :
                  /\ r.cookies[i].name \in {KEY_SESSTOK, KEY_SESSID}
                  /\ \/ r.cookies[i].value = <<>>
                     \/ /\ r.cookies[i].name = KEY_SESSTOK
                        /\ r.cookies[i].value = r.token
                     \/ /\ r.cookies[i].name = KEY_SESSID
                        /\ r.cookies[i].value[1] \in SessIds
            /\ \A i \in 1 .. Len(r.log) :
                  /\ r.log[i].actor \in Emails
                  /\ r.log[i].action \in {"new session", "session deleted",
                                          "changed password", "changed email"}
                  /\ r.log[i].arg \in Emails \cup {""}
            /\ \A H \in [Users -> Passwords] : C16_Independent(r, H)

\* a finished login that verified a password against the stored hash
\* and answered with cookies and a log line
C16_Witness ==
    /\ rq[1].pc = "done" /\ rq[1].handler = "sendlogin"
    /\ rq[1].status = KHTTP_200 /\ rq[1].lookup = "row"
    /\ Len(rq[1].cookies) = 2 /\ Len(rq[1].log) = 1
    /\ user[rq[1].lu[1].id].hash = rq[1].pass[1]

\* a finished index read: the body is the user object
C16_WitnessIndex ==
    /\ rq[1].pc = "done" /\ rq[1].handler = "sendindex"
    /\ rq[1].body.user # <<>>

C17_Unique(us) == \A i, j \in DOMAIN us : i # j => us[i].email # us[j].email

\* users i and j ask for the address e, i's UPDATE first
C17_Both(i, j, e) ==
    LET m1 == db_user_mod_email(Blank, user, [id |-> i, email |-> user[i].email], e)
        m2 == db_user_mod_email(Blank, m1.user,
                                [id |-> j, email |-> m1.user[j].email], e)
    IN  /\ ~(m1.rc /\ m2.rc)
        /\ ~m1.rc => m1.user = user
        /\ ~m2.rc => m2.user = m1.user
        /\ C17_Unique(m2.user)

(* C17: with usermodemail requests (and logins and logouts) of the two
   users interleaved in every way, no two users ever have the same
   e-mail; the step of a usermodemail request for an address that another
   user has at that moment (an earlier or a concurrent request having
   taken it) ends 400 and leaves the user table as it was, its own e-mail
   included; and of the UPDATEs of two different users for the same
   address, in either order, at most one succeeds and the other changes
   nothing. *)
C17_EmailUnique ==
    [][/\ C17_Unique(user) /\ C17_Unique(user')
       /\ \A p \in Procs :
            (rq[p].pc = PAGE_USER_MOD_EMAIL /\ rq'[p] # rq[p]
                /\ rq'[p].email # <<>>)
            => /\ \A i, j \in Users, e \in Emails :
                    i # j => C17_Both(i, j, e)
               /\ (\E j \in Users \ {rq[p].u[1].id} :
                      user[j].email = rq'[p].email[1])
                  => /\ rq'[p].pc = "done" /\ rq'[p].status = KHTTP_400
                     /\ user' = user]_vars

\* two finished usermodemail requests of different users for the same
\* address: one answered 200 and has the address, the other 400
C17_Witness ==
    /\ rq[1].pc = "done" /\ rq[1].handler = "sendmodemail"
    /\ rq[2].pc = "done" /\ rq[2].handler = "sendmodemail"
    /\ rq[1].email = rq[2].email /\ rq[1].u[1].id # rq[2].u[1].id
    /\ rq[1].status = KHTTP_400 /\ rq[2].status = KHTTP_200
    /\ user[rq[2].u[1].id].email = rq[2].email[1]
    /\ user[rq[1].u[1].id].email = rq[1].u[1].email

\* the live rows with the cookie pair of request r
C18_Rows(r) == {x \in sess : <<x.id>> = r.sid /\ <<x.token>> = r.stok}

\* the session the cookies and the user of request r name
C18_Session(r) == [id |-> r.sid[1], token |-> r.stok[1], userid |-> r.u[1].id]

C18_Logout(r) == r.pc = "done" /\ r.handler = "sendlogout"

(* C18: with requests interleaved in every way, one of them a logout of
   the session S whose cookie pair another carries: the step that
   resolves the pair gives the owner of the live row with that id and
   token and goes on to the page function, or, no such row being left,
   gives no user and ends 403 (login goes on); it never gives another
   user and no request ever ends by a failed statement.  The page
   function then runs as the user resolved, whether or not S has been
   deleted meanwhile, and two logouts of S both end 200 with S gone. *)
C18_ResolveRacesDelete ==
    [][\A p \in Procs :
         /\ ~rq'[p].crashed
         /\ (rq[p].pc = "db_sess_resolve" /\ rq'[p] # rq[p])
            => IF C18_Rows(rq'[p]) = {}
               THEN /\ rq'[p].u = <<>>
                    /\ IF rq[p].page = PAGE_LOGIN
                       THEN rq'[p].pc = PAGE_LOGIN
                       ELSE rq'[p].pc = "done" /\ rq'[p].status = KHTTP_403
               ELSE /\ \E x \in C18_Rows(rq'[p]) :
                         rq'[p].u = <<[id |-> x.userid,
                                       email |-> user[x.userid].email]>>
                    /\ rq'[p].pc = rq[p].page
         /\ (rq[p].pc \in {PAGE_INDEX, PAGE_LOGOUT, PAGE_USER_MOD_EMAIL}
                /\ rq'[p] # rq[p])
            => /\ rq'[p].pc = "done" /\ rq'[p].u = rq[p].u /\ rq[p].u # <<>>
               /\ rq[p].pc = PAGE_INDEX
                  => /\ rq'[p].status = KHTTP_200
                     /\ rq'[p].body.user = <<[email |-> rq[p].u[1].email,
                                               id |-> rq[p].u[1].id]>>
               /\ rq[p].pc = PAGE_LOGOUT
                  => /\ rq'[p].status = KHTTP_200
                     /\ sess' = sess \ {C18_Session(rq[p])}
               /\ rq[p].pc = PAGE_USER_MOD_EMAIL
                  => /\ rq'[p].status \in {KHTTP_200, KHTTP_400}
                     /\ \A j \in Users \ {rq[p].u[1].id} : user'[j] = user[j]
         /\ \A q \in Procs \ {p} :
               (C18_Logout(rq'[p]) /\ C18_Logout(rq'[q])
                  /\ C18_Session(rq'[p]) = C18_Session(rq'[q]))
               => /\ rq'[p].status = KHTTP_200 /\ rq'[q].status = KHTTP_200
                  /\ C18_Session(rq'[p]) \notin sess']_vars

\* the race: a logout of S has finished and S is gone, while another
\* request that carries S's pair resolved to S's owner before that and
\* has its page function yet to run
C18_Witness ==
    /\ C18_Logout(rq[1]) /\ rq[1].status = KHTTP_200
    /\ rq[2].pc = PAGE_INDEX /\ rq[2].u = rq[1].u
    /\ rq[2].sid = rq[1].sid /\ rq[2].stok = rq[1].stok
    /\ C18_Rows(rq[2]) = {}

\* the other order: the request that carries S's pair was rejected, the
\* logout of S having finished
C18_WitnessRejected ==
    /\ C18_Logout(rq[1]) /\ rq[1].status = KHTTP_200
    /\ rq[2].pc = "done" /\ rq[2].status = KHTTP_403 /\ rq[2].resolved
    /\ rq[2].sid = rq[1].sid /\ rq[2].stok = rq[1].stok

\* two finished logouts of S
C18_WitnessTwice ==
    /\ C18_Logout(rq[1]) /\ C18_Logout(rq[2])
    /\ C18_Session(rq[1]) = C18_Session(rq[2])

\* the fields of request r are the e-mail and the password of a user
C19_Verifies(r) ==
    r.email # <<>> /\ r.pass # <<>> /\ C2_Valid(r.email[1], r.pass[1])

(* C19: the step of sendlogin goes on to the insert exactly when the
   fields are the e-mail and the password of a user, and with that user;
   otherwise (a field missing, no user with the e-mail, or a password
   that does not match) it ends the request with 400, no cookie, no body
   and no log line, no STMT_SESS_NEW issued.  Either way it leaves the
   sess and user tables as they were.  A step adds a sess row only as the
   insert of a login that was verified so, and the row is that user's. *)
C19_FailedLoginNoEffect ==
    [][/\ \A p \in Procs :
            (rq[p].pc = PAGE_LOGIN /\ rq'[p] # rq[p] /\ ~rq'[p].crashed)
            => /\ sess' = sess /\ user' = user
               /\ C12_Count(rq'[p].stmts, STMT_SESS_NEW) = 0
               /\ rq'[p].cookies = <<>> /\ rq'[p].body = NoBody
               /\ IF C19_Verifies(rq'[p])
                  THEN /\ rq'[p].pc = "db_sess_new"
                       /\ rq'[p].lu # <<>>
                       /\ user[rq'[p].lu[1].id].email = rq'[p].email[1]
                       /\ CheckPass(rq'[p].pass[1],
                                    user[rq'[p].lu[1].id].hash)
                  ELSE /\ rq'[p].pc = "done" /\ rq'[p].status = KHTTP_400
                       /\ rq'[p].lu = <<>> /\ rq'[p].log = <<>>
       /\ \A p \in Procs :
            rq'[p].pc = "db_sess_new"
            => rq[p].pc = "db_sess_new" \/ C19_Verifies(rq'[p])
       /\ \A x \in sess' \ sess :
            \E p \in Procs :
               /\ rq[p].pc = "db_sess_new" /\ rq[p].handler = "sendlogin"
               /\ rq[p].lu # <<>> /\ x.userid = rq[p].lu[1].id
               /\ rq'[p].status = KHTTP_200]_vars

\* a login with a user's e-mail and another password, refused while a
\* session is live
C19_Witness ==
    /\ rq[1].pc = "done" /\ rq[1].handler = "sendlogin"
    /\ rq[1].lookup = "row" /\ rq[1].lu = <<>>
    /\ rq[1].status = KHTTP_400 /\ rq[1].cookies = <<>>
    /\ sess # {}

\* the rows a DELETE with the cookies and the user of request r can remove
C20_Own(r) ==
    {x \in sess : /\ <<x.id>> = r.sid /\ <<x.token>> = r.stok
                  /\ x.userid = r.u[1].id}

(* C20: a request reaches sendlogout only with both cookies present,
   neither of them -1, and with the user that db_sess_resolve returned
   for that pair in the same request; the step of sendlogout removes the
   rows that have the sid cookie as id, the stok cookie as token and that
   user as owner, and no other; and whatever step removes a sess row is
   such a step, so every row removed is a row of the user the removing
   request was authenticated as. *)
C20_NoCrossAccountDelete ==
    [][/\ \A p \in Procs :
            /\ (rq[p].pc = "db_sess_resolve" /\ rq'[p].pc = PAGE_LOGOUT)
               => /\ rq'[p].sid # <<>> /\ rq'[p].stok # <<>>
                  /\ rq'[p].sid[1] # -1 /\ rq'[p].stok[1] # -1
                  /\ rq'[p].u # <<>>
                  /\ rq'[p].u = db_sess_resolve(user, sess, rq'[p].sid[1],
                                                rq'[p].stok[1]).u
            /\ (rq[p].pc = PAGE_LOGOUT /\ rq'[p] # rq[p])
               => /\ rq[p].sid # <<>> /\ rq[p].stok # <<>> /\ rq[p].u # <<>>
                  /\ rq'[p].sid = rq[p].sid /\ rq'[p].stok = rq[p].stok
                  /\ rq'[p].u = rq[p].u
                  /\ rq'[p].handler = "sendlogout"
                  /\ sess' \subseteq sess
                  /\ sess \ sess' = IF rq'[p].crashed THEN {} ELSE C20_Own(rq[p])
                  /\ user' = user
       /\ \A x \in sess \ sess' :
            \E p \in Procs : /\ rq[p].pc = PAGE_LOGOUT /\ rq'[p] # rq[p]
                              /\ rq[p].u # <<>> /\ x \in C20_Own(rq[p])]_vars

\* a finished logout of a user's session: its row is gone and a session
\* of the other user is live
C20_Witness ==
    /\ rq[1].pc = "done" /\ rq[1].handler = "sendlogout" /\ ~rq[1].crashed
    /\ rq[1].u # <<>> /\ C20_Own(rq[1]) = {}
    /\ \E x \in sess : x.userid # rq[1].u[1].id

====
